---- MODULE Spec2Model ----
(***************************************************************************)
(* Model of grokdisk's partition.go: AnalyzeImageFile reading the four     *)
(* primary MBR partition entries of a disk image, and the Start()/Size()   *)
(* accessors of Partition.                                                 *)
(*                                                                         *)
(* Unsigned integers wider than 16 bits are kept as little-endian          *)
(* sequences of 16-bit words (uint32 = 2 words, uint64 = 4 words), so that *)
(* their full range is representable and wrap-around is explicit.          *)
(***************************************************************************)
EXTENDS Integers, Sequences, FiniteSets

VARIABLES
    imageLen,        \* length in bytes of the image file at `path`
    table,           \* the image's bytes at offsets 446..509, as 4 rows of 16
    pc,              \* position inside AnalyzeImageFile / the caller
    imageFile,       \* state of the *os.File handle: "nil", "open", "closed"
    pos,             \* read offset of the handle
    partitionIndex,  \* loop variable of AnalyzeImageFile
    imageMetadata,   \* the ImageFileMetadata object the call allocates
    ret,             \* the pair AnalyzeImageFile returned
    ioLog,           \* the I/O operations issued so far, in order; dev is
                     \* what the resource allowed, ok how the call ended
    part,            \* the *Partition a caller holds
    startVal,        \* last result of part.Start()
    sizeVal          \* last result of part.Size()

vars == <<imageLen, table, pc, imageFile, pos, partitionIndex, imageMetadata,
          ret, ioLog, part, startVal, sizeVal>>

-----------------------------------------------------------------------------
(* Program constants *)

MBRPartitionTableOffset == 446
MBRPartitionTableSize == 16
NumPartitions == 4
DefaultSectorSize == 512

(* Bounds of the model *)

MaxShort == 2     \* image lengths start this many bytes below the table
MaxExtra == 2     \* image lengths end this many bytes above the table
MaxSmall == 1     \* small operand values 0..MaxSmall for the accessors

Path == "disk.img"
Nil == [nil |-> TRUE]
ImgAddr == [addr |-> 1]          \* the address of the allocated ImageFileMetadata

TableEnd == MBRPartitionTableOffset + NumPartitions * MBRPartitionTableSize

-----------------------------------------------------------------------------
(* Errors *)

ENOENT == [msg |-> "no such file or directory"]
ESPIPE == [msg |-> "illegal seek"]
EIO == [msg |-> "input/output error"]
EOF == [msg |-> "EOF"]
ErrUnexpectedEOF == [msg |-> "unexpected EOF"]

OpenMsg == "could not open image file"
SeekMsg == "could not seek partition table"
ReadMsg == "could not read partition entry"

Wrap_DropsCause(err, msg) ==
    IF err = Nil THEN Nil ELSE [msg |-> msg]

\* errors.Wrap: nil for a nil error, else the message annotating the cause
Wrap(err, msg) ==
    IF err = Nil THEN Nil ELSE [msg |-> msg, cause |-> err]

-----------------------------------------------------------------------------
(* The image file *)

ExampleEntry == <<128, 0, 1, 0, 11, 0, 0, 0, 63, 0, 0, 0, 1, 248, 11, 0>>
ZeroEntry == [k \in 1..16 |-> 0]
FullEntry == [k \in 1..16 |-> 255]
AscendingEntry == [k \in 1..16 |-> 15 * k + 1]

SampleEntries == {ExampleEntry, ZeroEntry, FullEntry, AscendingEntry}

ImageLens ==
    {0} \cup ((MBRPartitionTableOffset - MaxShort)..(TableEnd + MaxExtra))

\* the byte of the image at absolute offset o (o < imageLen)
ImageByte(o) ==
    IF o >= MBRPartitionTableOffset /\ o < TableEnd
    THEN table[((o - MBRPartitionTableOffset) \div 16) + 1]
              [((o - MBRPartitionTableOffset) % 16) + 1]
    ELSE (7 * o + 3) % 256

Min(a, b) == IF a < b THEN a ELSE b
Max(a, b) == IF a > b THEN a ELSE b

OsOpen(ok) ==
    IF ok THEN [file |-> "open", err |-> Nil] ELSE [file |-> "nil", err |-> ENOENT]

FileSeek_PastEOFFails(off, ok) ==
    IF ok /\ off <= imageLen THEN [pos |-> off, err |-> Nil]
    ELSE [pos |-> 0, err |-> ESPIPE]

FileSeek_AtEOFFails(off, ok) ==
    IF ok /\ off < imageLen THEN [pos |-> off, err |-> Nil]
    ELSE [pos |-> 0, err |-> ESPIPE]

\* (*os.File).Seek(off, SEEK_SET): lseek sets the offset whatever the length
\* of the file; it fails only when the resource cannot seek (ok = FALSE)
FileSeek(off, ok) ==
    IF ok THEN [pos |-> off, err |-> Nil] ELSE [pos |-> 0, err |-> ESPIPE]

\* (*os.File).Read of up to k bytes at offset p; fault = the device fails
FileRead(p, k, fault) ==
    IF fault THEN [buf |-> <<>>, err |-> EIO]
    ELSE LET n == Min(k, Max(0, imageLen - p))
         IN  [buf |-> [j \in 1..n |-> ImageByte(p + j - 1)],
              err |-> IF n = 0 THEN EOF ELSE Nil]

RECURSIVE ReadAtLeast(_, _, _, _)
\* io.ReadAtLeast's loop: read until min bytes are in buf or a read fails
ReadAtLeast(p, buf, min, fault) ==
    IF Len(buf) >= min THEN [buf |-> buf, err |-> Nil]
    ELSE LET r == FileRead(p + Len(buf), min - Len(buf), fault)
             b == buf \o r.buf
         IN  IF r.err = Nil THEN ReadAtLeast(p, b, min, fault)
             ELSE IF Len(b) >= min THEN [buf |-> b, err |-> Nil]
             ELSE IF Len(b) > 0 /\ r.err = EOF
                  THEN [buf |-> b, err |-> ErrUnexpectedEOF]
             ELSE [buf |-> b, err |-> r.err]

ReadFull_NoShortErr(p, size, fault) ==
    LET r == ReadAtLeast(p, <<>>, size, fault)
    IN  IF r.err = ErrUnexpectedEOF
        THEN [buf |-> [j \in 1..size |-> IF j <= Len(r.buf) THEN r.buf[j] ELSE 0],
              err |-> Nil]
        ELSE r

\* io.ReadFull(r, bs) with len(bs) = size
ReadFull(p, size, fault) == ReadAtLeast(p, <<>>, size, fault)

-----------------------------------------------------------------------------
(* encoding/binary: decoding a PartitionMetadata *)

PartitionMetadataSize == 16     \* 8 byte fields and 2 uint32 fields

\* binary.LittleEndian.Uint32 of the 4 bytes of buf starting at index k
LittleEndianUint32(buf, k) ==
    <<buf[k] + 256 * buf[k + 1], buf[k + 2] + 256 * buf[k + 3]>>

BigEndianUint32(buf, k) ==
    <<buf[k + 3] + 256 * buf[k + 2], buf[k + 1] + 256 * buf[k]>>

Decode_BigEndian(buf) ==
    [Status |-> buf[1], StartHead |-> buf[2], StartSector |-> buf[3],
     StartCylinder |-> buf[4], PartitionType |-> buf[5], EndHead |-> buf[6],
     EndSector |-> buf[7], EndCylinder |-> buf[8],
     FirstSectorLBA |-> BigEndianUint32(buf, 9),
     SectorCount |-> BigEndianUint32(buf, 13)]

Decode_SkipsEndCHS(buf) ==
    [Status |-> buf[1], StartHead |-> buf[2], StartSector |-> buf[3],
     StartCylinder |-> buf[4], PartitionType |-> buf[5], EndHead |-> 0,
     EndSector |-> 0, EndCylinder |-> 0,
     FirstSectorLBA |-> LittleEndianUint32(buf, 9),
     SectorCount |-> LittleEndianUint32(buf, 13)]

\* binary.Read's decoding of the struct: fields in declaration order
Decode(buf) ==
    [Status |-> buf[1], StartHead |-> buf[2], StartSector |-> buf[3],
     StartCylinder |-> buf[4], PartitionType |-> buf[5], EndHead |-> buf[6],
     EndSector |-> buf[7], EndCylinder |-> buf[8],
     FirstSectorLBA |-> LittleEndianUint32(buf, 9),
     SectorCount |-> LittleEndianUint32(buf, 13)]

\* &PartitionMetadata{}: the zero value
ZeroMetadata == Decode(ZeroEntry)

BinaryRead_Validates(p, fault) ==
    LET r == ReadFull(p, PartitionMetadataSize, fault)
    IN  IF r.err # Nil
        THEN [n |-> Len(r.buf), err |-> r.err, data |-> ZeroMetadata]
        ELSE IF Decode(r.buf).PartitionType = 0
        THEN [n |-> Len(r.buf), err |-> EIO, data |-> ZeroMetadata]
        ELSE [n |-> Len(r.buf), err |-> Nil, data |-> Decode(r.buf)]

\* binary.Read(imageFile, binary.LittleEndian, metadata) at file offset p:
\* n bytes consumed, the error, and the struct as it is left
BinaryRead(p, fault) ==
    LET r == ReadFull(p, PartitionMetadataSize, fault)
    IN  IF r.err # Nil
        THEN [n |-> Len(r.buf), err |-> r.err, data |-> ZeroMetadata]
        ELSE [n |-> Len(r.buf), err |-> Nil, data |-> Decode(r.buf)]

-----------------------------------------------------------------------------
(* Unsigned arithmetic on word sequences *)

RECURSIVE Bytes(_)
\* the base-256 digits of a word sequence, least significant first
Bytes(w) ==
    IF w = <<>> THEN <<>>
    ELSE <<Head(w) % 256, Head(w) \div 256>> \o Bytes(Tail(w))

RECURSIVE Words(_)
Words(b) ==
    IF b = <<>> THEN <<>>
    ELSE <<b[1] + 256 * b[2]>> \o Words(Tail(Tail(b)))

RECURSIVE Column(_, _, _, _)
\* sum of a[i] * b[j] over i + j = k + 1, from index i on
Column(a, b, k, i) ==
    IF i > Len(a) \/ i > k THEN 0
    ELSE (IF k + 1 - i <= Len(b) THEN a[i] * b[k + 1 - i] ELSE 0)
         + Column(a, b, k, i + 1)

RECURSIVE MulBytes(_, _, _, _, _)
\* digits k..width of the product of digit sequences a and b
MulBytes(a, b, k, carry, width) ==
    IF k > width THEN <<>>
    ELSE LET s == Column(a, b, k, 1) + carry
         IN  <<s % 256>> \o MulBytes(a, b, k + 1, s \div 256, width)

\* the conversion uint64(x) of a narrower unsigned value
Uint64(w) == [k \in 1..4 |-> IF k <= Len(w) THEN w[k] ELSE 0]

\* a * b in uint64: the product modulo 2^64
Mul64(a, b) == Words(MulBytes(Bytes(a), Bytes(b), 1, 0, 8))

\* a * b in uint32: the product modulo 2^32
Mul32(a, b) == Words(MulBytes(Bytes(a), Bytes(b), 1, 0, 4))

-----------------------------------------------------------------------------
(* Partition accessors *)

\* p.ImageFile: the ImageFileMetadata the partition points to
ImageFileOf(p) == imageMetadata

Start_Uint32(p) ==
    Uint64(Mul32(p.PartitionMetadata.FirstSectorLBA, <<ImageFileOf(p).SectorSize>>))

\* func (p *Partition) Start() uint64
Start(p) ==
    Mul64(Uint64(p.PartitionMetadata.FirstSectorLBA),
          Uint64(<<ImageFileOf(p).SectorSize>>))

\* func (p *Partition) Size() uint64
Size(p) ==
    Mul64(Uint64(p.PartitionMetadata.SectorCount),
          Uint64(<<ImageFileOf(p).SectorSize>>))

-----------------------------------------------------------------------------
(* AnalyzeImageFile *)

NoReturn == [meta |-> Nil, err |-> Nil]
NoValue == <<>>                  \* an accessor result not computed yet

Deferred_Skipped(log) == log

\* defer imageFile.Close(): runs on every return after the open succeeded
Deferred(log) == Append(log, [op |-> "close"])

\* the handle after Close
FileClose(f) == "closed"

LoopCond_OneMore(i) == i <= NumPartitions

\* partitionIndex < 4
LoopCond(i) == i < NumPartitions

ReturnOnReadError_Partial(err) == [meta |-> ImgAddr, err |-> Wrap(err, ReadMsg)]

\* return nil, errors.Wrap(err, "could not read partition entry")
ReturnOnReadError(err) == [meta |-> Nil, err |-> Wrap(err, ReadMsg)]

Init ==
    /\ imageLen \in ImageLens
    /\ table \in [1..NumPartitions -> SampleEntries]
    /\ pc = "open"
    /\ imageFile = "nil"
    /\ pos = 0
    /\ partitionIndex = 0
    /\ imageMetadata = Nil
    /\ ret = NoReturn
    /\ ioLog = <<>>
    /\ part = Nil
    /\ startVal = NoValue
    /\ sizeVal = NoValue

\* imageFile, err := os.Open(path); the error check; the defer
Open ==
    /\ pc = "open"
    /\ \E ok \in BOOLEAN :
         LET r == OsOpen(ok)
         IN  /\ ioLog' = Append(ioLog, [op |-> "open", dev |-> ok, ok |-> (r.err = Nil)])
             /\ imageFile' = r.file
             /\ IF r.err # Nil
                THEN /\ ret' = [meta |-> Nil, err |-> Wrap(r.err, OpenMsg)]
                     /\ pc' = "done"
                ELSE /\ ret' = ret
                     /\ pc' = "seek"
    /\ UNCHANGED <<imageLen, table, pos, partitionIndex, imageMetadata,
                   part, startVal, sizeVal>>

\* the Seek to the table, its error check, the allocation of imageMetadata
\* and the loop initialisation
Seek ==
    /\ pc = "seek"
    /\ \E ok \in BOOLEAN :
         LET r == FileSeek(MBRPartitionTableOffset, ok)
             log == Append(ioLog, [op |-> "seek", off |-> MBRPartitionTableOffset,
                                   dev |-> ok, ok |-> (r.err = Nil)])
         IN  IF r.err # Nil
             THEN /\ ret' = [meta |-> Nil, err |-> Wrap(r.err, SeekMsg)]
                  /\ ioLog' = Deferred(log)
                  /\ imageFile' = FileClose(imageFile)
                  /\ pc' = "done"
                  /\ UNCHANGED <<pos, imageMetadata, partitionIndex>>
             ELSE /\ pos' = r.pos
                  /\ imageMetadata' = [SectorSize |-> DefaultSectorSize,
                                       Filepath |-> Path,
                                       Partitions |-> <<>>]
                  /\ partitionIndex' = 0
                  /\ ioLog' = log
                  /\ pc' = "loop"
                  /\ UNCHANGED <<ret, imageFile>>
    /\ UNCHANGED <<imageLen, table, part, startVal, sizeVal>>

\* one iteration of the loop over the four table slots
ReadEntry ==
    /\ pc = "loop"
    /\ LoopCond(partitionIndex)
    /\ \E fault \in BOOLEAN :
         LET r == BinaryRead(pos, fault)
             log == Append(ioLog, [op |-> "read", slot |-> partitionIndex,
                                   want |-> PartitionMetadataSize, n |-> r.n,
                                   dev |-> ~fault, ok |-> (r.err = Nil)])
             partition == [PartitionMetadata |-> r.data, ImageFile |-> ImgAddr]
         IN  /\ pos' = pos + r.n
             /\ IF r.err # Nil
                THEN /\ ret' = ReturnOnReadError(r.err)
                     /\ ioLog' = Deferred(log)
                     /\ imageFile' = FileClose(imageFile)
                     /\ pc' = "done"
                     /\ UNCHANGED <<imageMetadata, partitionIndex>>
                ELSE /\ imageMetadata' =
                          [imageMetadata EXCEPT
                             !.Partitions = Append(@, partition)]
                     /\ partitionIndex' = partitionIndex + 1
                     /\ ioLog' = log
                     /\ UNCHANGED <<ret, imageFile, pc>>
    /\ UNCHANGED <<imageLen, table, part, startVal, sizeVal>>

\* the loop ends: return imageMetadata, nil
Return ==
    /\ pc = "loop"
    /\ ~LoopCond(partitionIndex)
    /\ ret' = [meta |-> ImgAddr, err |-> Nil]
    /\ ioLog' = Deferred(ioLog)
    /\ imageFile' = FileClose(imageFile)
    /\ pc' = "done"
    /\ UNCHANGED <<imageLen, table, pos, partitionIndex, imageMetadata,
                   part, startVal, sizeVal>>

-----------------------------------------------------------------------------
(* A caller using the result *)

\* the caller takes one of the returned partitions
PickPartition ==
    /\ pc = "done"
    /\ ret.err = Nil
    /\ \E i \in 1..Len(imageMetadata.Partitions) :
         part' = imageMetadata.Partitions[i]
    /\ startVal' = NoValue
    /\ sizeVal' = NoValue
    /\ UNCHANGED <<imageLen, table, pc, imageFile, pos, partitionIndex,
                   imageMetadata, ret, ioLog>>

CallStart ==
    /\ part # Nil
    /\ startVal' = Start(part)
    /\ UNCHANGED <<imageLen, table, pc, imageFile, pos, partitionIndex,
                   imageMetadata, ret, ioLog, part, sizeVal>>

CallSize ==
    /\ part # Nil
    /\ sizeVal' = Size(part)
    /\ UNCHANGED <<imageLen, table, pc, imageFile, pos, partitionIndex,
                   imageMetadata, ret, ioLog, part, startVal>>

Next ==
    \/ Open
    \/ Seek
    \/ ReadEntry
    \/ Return
    \/ PickPartition
    \/ CallStart
    \/ CallSize

Spec == Init /\ [][Next]_vars

-----------------------------------------------------------------------------
(* The accessors on partitions a caller builds itself *)

GeomWords == (0..MaxSmall) \cup {63, 255, 256, 32767, 32768, 65535}

InitGeom ==
    /\ imageLen = 0
    /\ table = [i \in 1..NumPartitions |-> ZeroEntry]
    /\ pc = "caller"
    /\ imageFile = "nil"
    /\ pos = 0
    /\ partitionIndex = 0
    /\ \E ss \in GeomWords :
         imageMetadata = [SectorSize |-> ss, Filepath |-> Path,
                          Partitions |-> <<>>]
    /\ ret = NoReturn
    /\ ioLog = <<>>
    /\ \E lba \in GeomWords \X GeomWords, cnt \in GeomWords \X GeomWords :
         part = [PartitionMetadata |->
                   [ZeroMetadata EXCEPT !.FirstSectorLBA = lba,
                                        !.SectorCount = cnt],
                 ImageFile |-> ImgAddr]
    /\ startVal = NoValue
    /\ sizeVal = NoValue

NextGeom ==
    \/ CallStart
    \/ CallSize

SpecGeom == InitGeom /\ [][NextGeom]_vars

-----------------------------------------------------------------------------
(* Vocabulary of the properties *)

Done == pc = "done"
Opened == Len(ioLog) >= 1 /\ ioLog[1].op = "open" /\ ioLog[1].ok
Succeeded == Done /\ ret.err = Nil
Reads == SelectSeq(ioLog, LAMBDA e : e.op = "read")
Closes == SelectSeq(ioLog, LAMBDA e : e.op = "close")

\* open and seek were possible and no device read failed
NoDeviceFault == \A k \in 1..Len(ioLog) : ioLog[k].op # "close" => ioLog[k].dev

RECURSIVE BytesRead(_)
BytesRead(log) ==
    IF log = <<>> THEN 0
    ELSE (IF Head(log).op = "read" THEN Head(log).n ELSE 0) + BytesRead(Tail(log))

\* the 16 image bytes of table slot i (0-based)
SlotBytes(i) ==
    [k \in 1..16 |-> ImageByte(MBRPartitionTableOffset + 16 * i + k - 1)]

\* a uint64 below 2^31 written as a number
U64(n) == <<n % 65536, n \div 65536, 0, 0>>

\* the returned partition of slot i (0-based)
Returned(i) == imageMetadata.Partitions[i + 1]

-----------------------------------------------------------------------------
\* C1: AnalyzeImageFile returns either a metadata with exactly 4 partitions
\* and a nil error, or a nil metadata and a non-nil error; a metadata with
\* fewer than 4 partitions is never returned.
C1_AllOrNothing ==
    /\ ~Done => ret = NoReturn
    /\ Done =>
         \/ /\ ret.meta = ImgAddr
            /\ ret.err = Nil
            /\ Len(imageMetadata.Partitions) = 4
         \/ /\ ret.meta = Nil
            /\ ret.err # Nil

C1_Witness ==
    /\ Done
    /\ imageMetadata # Nil
    /\ Len(imageMetadata.Partitions) = 3
    /\ ret.meta = Nil
    /\ ret.err # Nil

-----------------------------------------------------------------------------
\* the fixed layout of slot i: 8 single-byte fields in order, then
\* FirstSectorLBA and SectorCount little-endian, read at offset 446 + 16 i
LayoutHolds(i) ==
    LET b == SlotBytes(i)
        m == Returned(i).PartitionMetadata
    IN  /\ m.Status = b[1]
        /\ m.StartHead = b[2]
        /\ m.StartSector = b[3]
        /\ m.StartCylinder = b[4]
        /\ m.PartitionType = b[5]
        /\ m.EndHead = b[6]
        /\ m.EndSector = b[7]
        /\ m.EndCylinder = b[8]
        /\ m.FirstSectorLBA = <<b[9] + 256 * b[10], b[11] + 256 * b[12]>>
        /\ m.SectorCount = <<b[13] + 256 * b[14], b[15] + 256 * b[16]>>

\* the uint64 value 512 * w of a uint32 w, written out word by word
Times512(w) ==
    <<(w[1] * 512) % 65536,
      ((w[1] * 512) \div 65536) + ((w[2] * 512) % 65536),
      (w[2] * 512) \div 65536,
      0>>

SectorSize512(i) ==
    /\ imageMetadata.SectorSize = 512
    /\ Start(Returned(i)) = Times512(Returned(i).PartitionMetadata.FirstSectorLBA)
    /\ Size(Returned(i)) = Times512(Returned(i).PartitionMetadata.SectorCount)

\* C2 (as amended): on success every slot i in 0..3 is decoded from the 16
\* bytes at 446+16i with the fixed little-endian layout, in slot order, and
\* Start()/Size() use sector size 512; the example entry in slot 0 gives
\* Start() = 32256 and Size() = 784385 * 512 = 401605120.
C2_LayoutAndExample ==
    Succeeded =>
        /\ \A i \in 0..3 : LayoutHolds(i) /\ SectorSize512(i)
        /\ SlotBytes(0) = ExampleEntry =>
             /\ Start(Returned(0)) = U64(32256)
             /\ Size(Returned(0)) = U64(401605120)

\* C2 as stated: the example entry gives Size() = 401867264.
C2_AsStated ==
    Succeeded =>
        /\ \A i \in 0..3 : LayoutHolds(i) /\ SectorSize512(i)
        /\ SlotBytes(0) = ExampleEntry =>
             /\ Start(Returned(0)) = U64(32256)
             /\ Size(Returned(0)) = U64(401867264)

C2_Witness ==
    /\ Succeeded
    /\ SlotBytes(0) = ExampleEntry
    /\ SlotBytes(1) = AscendingEntry
    /\ part = Returned(0)
    /\ startVal = U64(32256)
    /\ sizeVal = U64(401605120)

-----------------------------------------------------------------------------
\* C3 (as amended): for an image shorter than 446 bytes that was opened, no
\* metadata is produced; the seek past the end of the file succeeds whenever
\* the resource can seek, and the call then fails at the read of slot 0 with
\* the "could not read partition entry" error (cause EOF, or the device's
\* error), having read no byte.
C3_ShortImageFailsAtRead ==
    (Done /\ Opened /\ imageLen < MBRPartitionTableOffset) =>
        /\ ret.meta = Nil
        /\ ret.err # Nil
        /\ ioLog[2].dev =>
             /\ ioLog[2].ok
             /\ ret.err.msg = ReadMsg
             /\ ret.err.cause \in {EOF, EIO}
             /\ (NoDeviceFault => ret.err.cause = EOF)
             /\ partitionIndex = 0
             /\ Len(Reads) = 1
             /\ BytesRead(ioLog) = 0

\* C3 as stated: an image shorter than 446 bytes fails with the seek-stage
\* error, before any entry read.
C3_AsStated ==
    (Done /\ Opened /\ imageLen < MBRPartitionTableOffset) =>
        /\ ret.meta = Nil
        /\ ret.err # Nil
        /\ ret.err.msg = SeekMsg
        /\ Len(Reads) = 0

C3_Witness ==
    /\ Done
    /\ Opened
    /\ imageLen = MBRPartitionTableOffset - 1
    /\ ioLog[2].ok
    /\ ret = [meta |-> Nil, err |-> [msg |-> ReadMsg, cause |-> EOF]]

-----------------------------------------------------------------------------
\* the first slot that cannot be read in full from an image of 446 + N bytes
ShortSlot == (imageLen - MBRPartitionTableOffset) \div 16

TruncatedTable ==
    /\ Done
    /\ Opened
    /\ NoDeviceFault
    /\ imageLen >= MBRPartitionTableOffset
    /\ imageLen < TableEnd

\* C4 (as amended): for an image of 446 + N bytes, 0 <= N < 64, with open and
\* seek succeeding and no device error, the call fails at the read of slot
\* floor(N/16) with the "could not read partition entry" error, whose cause
\* is EOF when N is a multiple of 16 and unexpected EOF otherwise; the error
\* holds the message and the cause only, not the slot index; no partitions
\* are returned.
C4_TruncatedTableFailsAtSlot ==
    TruncatedTable =>
        /\ ret.meta = Nil
        /\ ret.err = [msg |-> ReadMsg,
                      cause |-> IF (imageLen - MBRPartitionTableOffset) % 16 = 0
                                THEN EOF ELSE ErrUnexpectedEOF]
        /\ DOMAIN ret.err = {"msg", "cause"}
        /\ partitionIndex = ShortSlot
        /\ Len(imageMetadata.Partitions) = ShortSlot
        /\ Len(Reads) = ShortSlot + 1
        /\ ~Reads[ShortSlot + 1].ok

\* C4 as stated: the decode error carries the index of the first slot that
\* could not be fully read.
C4_AsStated ==
    TruncatedTable =>
        /\ ret.meta = Nil
        /\ ret.err # Nil
        /\ ret.err.msg = ReadMsg
        /\ "slot" \in DOMAIN ret.err
        /\ ret.err.slot = ShortSlot

C4_Witness ==
    /\ TruncatedTable
    /\ imageLen = MBRPartitionTableOffset + 40
    /\ partitionIndex = 2
    /\ ret = [meta |-> Nil, err |-> [msg |-> ReadMsg, cause |-> ErrUnexpectedEOF]]

-----------------------------------------------------------------------------
ExactlyTableOffset ==
    /\ Done
    /\ Opened
    /\ NoDeviceFault
    /\ imageLen = MBRPartitionTableOffset

\* C5 (as amended): for an image of exactly 446 bytes, with open possible and
\* no device error, the seek to 446 succeeds and the call fails at the entry
\* read of slot 0 with cause EOF: a decode (entry-read-stage) failure, not a
\* table-location (seek-stage) failure.
C5_TableAbsentFailsAtRead ==
    ExactlyTableOffset =>
        /\ ioLog[2].op = "seek"
        /\ ioLog[2].ok
        /\ pos = MBRPartitionTableOffset
        /\ ret.meta = Nil
        /\ ret.err.msg = ReadMsg
        /\ ret.err.msg # SeekMsg
        /\ ret.err.cause = EOF
        /\ Reads = <<[op |-> "read", slot |-> 0, want |-> 16, n |-> 0,
                      dev |-> TRUE, ok |-> FALSE]>>

\* C5 as stated: an image of exactly 446 bytes fails at the seek stage and
\* not at the entry-read stage.
C5_AsStated ==
    ExactlyTableOffset =>
        /\ ret.err # Nil
        /\ ret.err.msg = SeekMsg
        /\ ret.err.msg # ReadMsg

C5_Witness ==
    /\ ExactlyTableOffset
    /\ ret.err = [msg |-> ReadMsg, cause |-> EOF]
    /\ Len(ioLog) = 4

-----------------------------------------------------------------------------
\* C6: when the open succeeds the handle is closed exactly once, as the last
\* I/O operation of the call, on every exit path; no seek or read follows the
\* close; when the open fails no handle exists.
C6_ClosedExactlyOnce ==
    /\ \A k \in 1..Len(ioLog) :
         ioLog[k].op = "close" => (k = Len(ioLog) /\ Done /\ Opened)
    /\ (Done /\ Opened) =>
         /\ Len(Closes) = 1
         /\ ioLog[Len(ioLog)].op = "close"
         /\ imageFile = "closed"
    /\ (~Done /\ Opened) => imageFile = "open"
    /\ ~Opened => (imageFile = "nil" /\ Len(Closes) = 0)

C6_Witness ==
    /\ Done
    /\ Opened
    /\ ret.err # Nil
    /\ partitionIndex = 2
    /\ Len(Closes) = 1
    /\ ioLog[Len(ioLog)].op = "close"
    /\ imageFile = "closed"

-----------------------------------------------------------------------------
\* C7: Start() = FirstSectorLBA * SectorSize and Size() = SectorCount *
\* SectorSize exactly, for operands up to 2^32-1 and 2^16-1: the 64-bit
\* result equals the full 48-bit product, nothing wraps.
ExactProduct(w, ss) ==
    MulBytes(Bytes(w), Bytes(<<ss>>), 1, 0, 6) \o <<0, 0>>

AgreesWithSmall(val, w, ss) ==
    (w[2] = 0 /\ w[1] < 32768) =>
        val = <<(w[1] * ss) % 65536, (w[1] * ss) \div 65536, 0, 0>>

C7_ExactGeometry ==
    LET m == part.PartitionMetadata
        ss == imageMetadata.SectorSize
    IN  /\ startVal # NoValue =>
             /\ Bytes(startVal) = ExactProduct(m.FirstSectorLBA, ss)
             /\ AgreesWithSmall(startVal, m.FirstSectorLBA, ss)
             /\ (m.FirstSectorLBA = <<65535, 65535>> /\ ss = 65535) =>
                    startVal = <<1, 65535, 65534, 0>>
        /\ sizeVal # NoValue =>
             /\ Bytes(sizeVal) = ExactProduct(m.SectorCount, ss)
             /\ AgreesWithSmall(sizeVal, m.SectorCount, ss)
             /\ (m.SectorCount = <<65535, 65535>> /\ ss = 65535) =>
                    sizeVal = <<1, 65535, 65534, 0>>

C7_Witness ==
    /\ pc = "caller"
    /\ part.PartitionMetadata.FirstSectorLBA = <<65535, 65535>>
    /\ part.PartitionMetadata.SectorCount = <<63, 0>>
    /\ imageMetadata.SectorSize = 65535
    /\ startVal = <<1, 65535, 65534, 0>>
    /\ sizeVal = <<65473, 62, 0, 0>>

-----------------------------------------------------------------------------
AllZeroFields(m) ==
    /\ m.Status = 0
    /\ m.StartHead = 0
    /\ m.StartSector = 0
    /\ m.StartCylinder = 0
    /\ m.PartitionType = 0
    /\ m.EndHead = 0
    /\ m.EndSector = 0
    /\ m.EndCylinder = 0
    /\ m.FirstSectorLBA = <<0, 0>>
    /\ m.SectorCount = <<0, 0>>

\* C8: an all-zero entry in slot i decodes without error, stays at position
\* i with every field 0 and Start() = Size() = 0 (the result still has 4
\* partitions); whether the call succeeds depends only on the resource
\* (open, seek, device reads, at least 510 bytes), never on the table bytes.
C8_ZeroEntryKept ==
    /\ Succeeded =>
         /\ Len(imageMetadata.Partitions) = 4
         /\ \A i \in 0..3 :
              SlotBytes(i) = ZeroEntry =>
                  /\ AllZeroFields(Returned(i).PartitionMetadata)
                  /\ Start(Returned(i)) = <<0, 0, 0, 0>>
                  /\ Size(Returned(i)) = <<0, 0, 0, 0>>
    /\ Done => (ret.err = Nil <=> (NoDeviceFault /\ imageLen >= TableEnd))

C8_Witness ==
    /\ Succeeded
    /\ SlotBytes(0) = FullEntry
    /\ SlotBytes(1) = ZeroEntry
    /\ SlotBytes(2) = ExampleEntry
    /\ AllZeroFields(Returned(1).PartitionMetadata)
    /\ part = Returned(1)
    /\ startVal = <<0, 0, 0, 0>>
    /\ sizeVal = <<0, 0, 0, 0>>

-----------------------------------------------------------------------------
\* the fixed 16-byte little-endian layout, written from a PartitionMetadata
Encode(m) ==
    <<m.Status, m.StartHead, m.StartSector, m.StartCylinder,
      m.PartitionType, m.EndHead, m.EndSector, m.EndCylinder,
      m.FirstSectorLBA[1] % 256, m.FirstSectorLBA[1] \div 256,
      m.FirstSectorLBA[2] % 256, m.FirstSectorLBA[2] \div 256,
      m.SectorCount[1] % 256, m.SectorCount[1] \div 256,
      m.SectorCount[2] % 256, m.SectorCount[2] \div 256>>

\* C9: re-encoding the 4 decoded entries with the fixed layout reproduces
\* the 64 bytes of the table region.
C9_RoundTrip ==
    Succeeded =>
        \A i \in 0..3 : Encode(Returned(i).PartitionMetadata) = SlotBytes(i)

C9_Witness ==
    /\ Succeeded
    /\ SlotBytes(0) = AscendingEntry
    /\ SlotBytes(3) = ExampleEntry
    /\ Encode(Returned(0).PartitionMetadata) = AscendingEntry
    /\ Encode(Returned(3).PartitionMetadata) = ExampleEntry

-----------------------------------------------------------------------------
\* C10: the I/O of a call is one open, then one seek to 446, then at most
\* four 16-byte entry reads for slots 0,1,2,3 in order at consecutive
\* offsets, then one close; no other operation, at most 64 bytes read, and
\* after the first failing step only the close follows.
C10_IOSequence ==
    /\ \A k \in 1..Len(ioLog) :
         LET e == ioLog[k]
         IN  /\ e.op \in {"open", "seek", "read", "close"}
             /\ e.op = "open" <=> k = 1
             /\ e.op = "seek" => (k = 2 /\ e.off = 446)
             /\ e.op = "read" =>
                    /\ k >= 3
                    /\ k <= 6
                    /\ e.slot = k - 3
                    /\ e.want = 16
                    /\ e.n <= 16
                    /\ ioLog[2].op = "seek"
             /\ e.op = "close" => (k >= 3 /\ k = Len(ioLog))
             /\ (e.op # "close" /\ ~e.ok) =>
                    \/ k = Len(ioLog)
                    \/ (k = Len(ioLog) - 1 /\ ioLog[Len(ioLog)].op = "close")
    /\ Len(Reads) <= 4
    /\ BytesRead(ioLog) <= 64
    /\ (Len(ioLog) >= 2 /\ ioLog[2].ok) =>
           pos = MBRPartitionTableOffset + BytesRead(ioLog)
    /\ Done => (ioLog[Len(ioLog)].op = "close" \/ ~Opened)

C10_Witness ==
    /\ Succeeded
    /\ Len(ioLog) = 7
    /\ Len(Reads) = 4
    /\ BytesRead(ioLog) = 64
    /\ pos = TableEnd

====
